---- MODULE Spec2Model ----
(***************************************************************************)
(* Model of @spiderseek/astro-analytics (src/src/index.ts): the            *)
(* integration factory spiderseek(options) and its astro:build:done hook,  *)
(* which walks the build output and splices a <script> tag into each page. *)
(* Strings are sequences of one-character strings, so that startsWith,     *)
(* endsWith, includes, search, slice, escapeHtml and encodeURIComponent    *)
(* are computed character by character as the code computes them.          *)
(***************************************************************************)
EXTENDS Integers, Sequences, FiniteSets, TLC

\* ------------------------------------------------------------------------
\* Bounds of the model
\* ------------------------------------------------------------------------
\* number of times the astro:build:done hook is invoked on one instance
MaxRuns == 2
\* number of readFile and writeFile calls the file system lets fail
MaxFailures == 1
\* length of the directory prefix of the probed relative paths
MaxPrefixLen == 4
\* length of the suffix appended to the probed URL paths
MaxSuffixLen == 3

\* ------------------------------------------------------------------------
\* String primitives (String.prototype.*)
\* ------------------------------------------------------------------------
\* an optional property of the options object: left out, or given a value
None == [given |-> FALSE, value |-> <<>>]
Some(v) == [given |-> TRUE, value |-> v]

\* the result of an out-of-range index
UndefinedChar == "undefined"

\* s.startsWith(p)
StartsWith(s, p) ==
  /\ Len(p) <= Len(s)
  /\ SubSeq(s, 1, Len(p)) = p

\* s.endsWith(p)
EndsWith(s, p) ==
  /\ Len(p) <= Len(s)
  /\ SubSeq(s, Len(s) - Len(p) + 1, Len(s)) = p

\* p occurs in s at 0-based index k
OccursAt(s, p, k) ==
  /\ k >= 0
  /\ k + Len(p) <= Len(s)
  /\ SubSeq(s, k + 1, k + Len(p)) = p

\* s.includes(p)
Includes(s, p) == \E k \in 0..Len(s) : OccursAt(s, p, k)

\* s.slice(0, -n)
SliceDropLast(s, n) == SubSeq(s, 1, Len(s) - n)

\* s.slice(k) for a 0-based k
SliceFrom(s, k) == SubSeq(s, k + 1, Len(s))

\* s.slice(0, k) for a 0-based k
SliceTo(s, k) == SubSeq(s, 1, k)

\* s[k] for a 0-based k; out of range reads give undefined
CharAt(s, k) == IF k >= 0 /\ k < Len(s) THEN s[k + 1] ELSE UndefinedChar

\* the concatenation of f(c) over the characters c of s
RECURSIVE FlatMap(_, _)
FlatMap(f, s) == IF s = <<>> THEN <<>> ELSE f[Head(s)] \o FlatMap(f, Tail(s))

\* ------------------------------------------------------------------------
\* Literals of the source
\* ------------------------------------------------------------------------
DefaultTagId == <<"s","p","i","d","e","r","s","e","e","k","-","s","d","k">>

BASE_URL ==
  <<"h","t","t","p","s",":","/","/","s","p","i","d","e","r","s","e","e","k",
    "j","s",".","c","o","m","/","s","p","i","d","e","r","s","e","e","k",".",
    "j","s">>

IndexHtml == <<"i","n","d","e","x",".","h","t","m","l">>
SlashIndexHtml == <<"/">> \o IndexHtml
DotHtml == <<".","h","t","m","l">>
PathSep == "/"

\* ------------------------------------------------------------------------
\* escapeHtml and encodeURIComponent
\* ------------------------------------------------------------------------
\* the characters /["&<>]/ and their entities
HtmlEntity(ch) ==
  CASE ch = "\"" -> <<"&","q","u","o","t",";">>
    [] ch = "&"  -> <<"&","a","m","p",";">>
    [] ch = "<"  -> <<"&","l","t",";">>
    [] ch = ">"  -> <<"&","g","t",";">>
    [] OTHER     -> <<ch>>

escapeHtml(s) ==
  IF s = <<>> THEN <<>>
  ELSE FlatMap([ch \in {s[k] : k \in 1..Len(s)} |-> HtmlEntity(ch)], s)

\* the characters encodeURIComponent escapes, among those the model uses,
\* with their UTF-8 percent encodings; every other character the model uses
\* is an unreserved mark or alphanumeric and is kept
UriEncoded(ch) ==
  CASE ch = " "  -> <<"%","2","0">>
    [] ch = "\"" -> <<"%","2","2">>
    [] ch = "&"  -> <<"%","2","6">>
    [] ch = "<"  -> <<"%","3","C">>
    [] ch = ">"  -> <<"%","3","E">>
    [] ch = "/"  -> <<"%","2","F">>
    [] ch = "="  -> <<"%","3","D">>
    [] OTHER     -> <<ch>>

encodeURIComponent(s) ==
  IF s = <<>> THEN <<>>
  ELSE FlatMap([ch \in {s[k] : k \in 1..Len(s)} |-> UriEncoded(ch)], s)

\* `<script id="${escapeHtml(tagId)}" async src="${BASE_URL}?id=${encodeURIComponent(siteId)}"></script>`
ScriptHtml(tag, site) ==
  <<"<","s","c","r","i","p","t"," ","i","d","=","\"">>
    \o escapeHtml(tag)
    \o <<"\""," ","a","s","y","n","c"," ","s","r","c","=","\"">>
    \o BASE_URL \o <<"?","i","d","=">> \o encodeURIComponent(site)
    \o <<"\"",">","<","/","s","c","r","i","p","t",">">>

\* `id="${tagId}"` and `id='${tagId}'`
IdDq(tag) == <<"i","d","=","\"">> \o tag \o <<"\"">>
IdSq(tag) == <<"i","d","=","'">> \o tag \o <<"'">>

\* ------------------------------------------------------------------------
\* filePathToUrl
\* ------------------------------------------------------------------------
\* path.join(dir, name)
PathJoin(dir, name) == dir \o <<PathSep>> \o name

\* path.relative(root, file) for a file below root
PathRelative(root, file) == SliceFrom(file, Len(root) + 1)

\* s.split(path.sep).join('/')
SepToSlash(s) == [k \in 1..Len(s) |-> IF s[k] = PathSep THEN "/" ELSE s[k]]

filePathToUrl(root, file) ==
  LET rel == SepToSlash(PathRelative(root, file)) IN
  IF EndsWith(rel, SlashIndexHtml)
  THEN LET base == <<"/">> \o SliceDropLast(rel, Len(IndexHtml)) IN
       IF base = <<"/">> THEN <<"/">> ELSE base
  ELSE IF EndsWith(rel, DotHtml)
  THEN <<"/">> \o rel
  ELSE <<"/">> \o rel

\* ------------------------------------------------------------------------
\* Matchers: string | RegExp, and RegExp.prototype.test
\* ------------------------------------------------------------------------
\* a string matcher
Str(text) ==
  [kind |-> "string", text |-> text, anchored |-> FALSE, global |-> FALSE,
   sticky |-> FALSE]

\* a RegExp whose source is an optional ^ followed by a literal, with flags
Re(text, anchored, global, sticky) ==
  [kind |-> "regexp", text |-> text, anchored |-> anchored, global |-> global,
   sticky |-> sticky]

\* an exclude entry that is neither a string nor a RegExp
NotAMatcher ==
  [kind |-> "other", text |-> <<>>, anchored |-> FALSE, global |-> FALSE,
   sticky |-> FALSE]

\* the pattern of m matches s at 0-based index k
MatchAt(m, s, k) ==
  /\ m.anchored => k = 0
  /\ OccursAt(s, m.text, k)

\* m.test(s) with m.lastIndex = li: the result and the lastIndex it leaves.
\* Only a global or sticky RegExp reads and writes lastIndex.
RegExpTest(m, li, s) ==
  LET stateful == m.global \/ m.sticky
      start == IF stateful THEN li ELSE 0
      hits == IF start > Len(s) THEN {}
              ELSE IF m.sticky
              THEN {k \in {start} : MatchAt(m, s, k)}
              ELSE {k \in start..Len(s) : MatchAt(m, s, k)}
  IN IF hits = {}
     THEN [result |-> FALSE, lastIndex |-> IF stateful THEN 0 ELSE li]
     ELSE LET k == CHOOSE h \in hits : \A g \in hits : h <= g IN
          [result |-> TRUE,
           lastIndex |-> IF stateful THEN k + Len(m.text) ELSE li]

\* isExcludedFrom with the prefix test on the raw string instead of on `pref`
RECURSIVE isExcludedFrom_RawPrefix(_, _, _, _)
isExcludedFrom_RawPrefix(ms, li, urlPath, j) ==
  IF j > Len(ms) THEN [excluded |-> FALSE, lastIndex |-> li]
  ELSE LET m == ms[j] IN
       IF m.kind = "string"
       THEN IF urlPath = m.text \/ StartsWith(urlPath, m.text)
            THEN [excluded |-> TRUE, lastIndex |-> li]
            ELSE isExcludedFrom_RawPrefix(ms, li, urlPath, j + 1)
       ELSE LET t == RegExpTest(m, li[j], urlPath)
                li2 == [li EXCEPT ![j] = t.lastIndex] IN
            IF t.result
            THEN [excluded |-> TRUE, lastIndex |-> li2]
            ELSE isExcludedFrom_RawPrefix(ms, li2, urlPath, j + 1)

\* the loop of isExcluded from matcher j on, with the lastIndex of every
\* RegExp in li: the boolean returned and the lastIndex values left behind
RECURSIVE isExcludedFrom(_, _, _, _)
isExcludedFrom(ms, li, urlPath, j) ==
  IF j > Len(ms) THEN [excluded |-> FALSE, lastIndex |-> li]
  ELSE LET m == ms[j] IN
       IF m.kind = "string"
       THEN LET pref == IF EndsWith(m.text, <<"/">>) THEN m.text
                        ELSE m.text \o <<"/">> IN
            IF urlPath = m.text \/ StartsWith(urlPath, pref)
            THEN [excluded |-> TRUE, lastIndex |-> li]
            ELSE isExcludedFrom(ms, li, urlPath, j + 1)
       ELSE LET t == RegExpTest(m, li[j], urlPath)
                li2 == [li EXCEPT ![j] = t.lastIndex] IN
            IF t.result
            THEN [excluded |-> TRUE, lastIndex |-> li2]
            ELSE isExcludedFrom(ms, li2, urlPath, j + 1)

isExcluded(ms, li, urlPath) == isExcludedFrom(ms, li, urlPath, 1)

\* ------------------------------------------------------------------------
\* The splice of the script tag
\* ------------------------------------------------------------------------
Whitespace == {" ", "\t", "\n", "\r"}

\* case folding of the /i flag on the letters of "head"
Fold(ch) ==
  CASE ch = "H" -> "h"
    [] ch = "E" -> "e"
    [] ch = "A" -> "a"
    [] ch = "D" -> "d"
    [] OTHER    -> ch

\* the 0-based index of the first character at or after k that is no whitespace
RECURSIVE SkipWhitespace(_, _)
SkipWhitespace(html, k) ==
  IF k < Len(html) /\ html[k + 1] \in Whitespace
  THEN SkipWhitespace(html, k + 1)
  ELSE k

\* /<\/head\s*>/i matches html at 0-based index k
HeadCloseAt(html, k) ==
  /\ k + 6 <= Len(html)
  /\ html[k + 1] = "<"
  /\ html[k + 2] = "/"
  /\ Fold(html[k + 3]) = "h"
  /\ Fold(html[k + 4]) = "e"
  /\ Fold(html[k + 5]) = "a"
  /\ Fold(html[k + 6]) = "d"
  /\ CharAt(html, SkipWhitespace(html, k + 6)) = ">"

\* html.search(/<\/head\s*>/i), scanning forward from index k
RECURSIVE SearchHeadCloseFrom(_, _)
SearchHeadCloseFrom(html, k) ==
  IF k >= Len(html) THEN -1
  ELSE IF HeadCloseAt(html, k) THEN k
  ELSE SearchHeadCloseFrom(html, k + 1)

SearchHeadClose(html) == SearchHeadCloseFrom(html, 0)

\* Inject with the newline before the tag added unconditionally
Inject_AlwaysNewline(html, script) ==
  LET headCloseIdx == SearchHeadClose(html) IN
  IF headCloseIdx # -1
  THEN SliceTo(html, headCloseIdx) \o <<"\n">> \o script \o <<"\n">>
         \o SliceFrom(html, headCloseIdx)
  ELSE script \o <<"\n">> \o html

\* the text written back for a page that is not yet tagged
Inject(html, script) ==
  LET headCloseIdx == SearchHeadClose(html) IN
  IF headCloseIdx # -1
  THEN SliceTo(html, headCloseIdx)
         \o (IF CharAt(html, headCloseIdx - 1) = "\n" THEN <<>> ELSE <<"\n">>)
         \o script \o <<"\n">> \o SliceFrom(html, headCloseIdx)
  ELSE script \o <<"\n">> \o html

\* AlreadyTagged looking for the double-quoted form only
AlreadyTagged_DoubleQuoteOnly(html, tag) == Includes(html, IdDq(tag))

\* the de-dupe test of the hook
AlreadyTagged(html, tag) == Includes(html, IdDq(tag)) \/ Includes(html, IdSq(tag))

\* ------------------------------------------------------------------------
\* collectHtmlFiles
\* ------------------------------------------------------------------------
File(name) == [name |-> name, kind |-> "file", children |-> <<>>]
Dir(name, children) == [name |-> name, kind |-> "dir", children |-> children]
\* a directory entry that is neither a directory nor a regular file
Other(name) == [name |-> name, kind |-> "other", children |-> <<>>]

\* walk(dir) over the entries readdir returned, in their order
RECURSIVE walk(_, _)
walk(dir, entries) ==
  IF entries = <<>> THEN <<>>
  ELSE LET e == Head(entries)
           full == PathJoin(dir, e.name)
           here == IF e.kind = "dir" THEN walk(full, e.children)
                   ELSE IF e.kind = "file" /\ EndsWith(full, DotHtml)
                   THEN <<full>>
                   ELSE <<>>
       IN here \o walk(dir, Tail(entries))

collectHtmlFiles(root, entries) == walk(root, entries)

\* ------------------------------------------------------------------------
\* Inputs: options, the build output tree and the pages' texts
\* ------------------------------------------------------------------------
Admin == <<"/","a","d","m","i","n">>
Preview == <<"/","p","r","e","v","i","e","w">>

SiteIds == {None, Some(<<>>), Some(<<"X">>)}

TagIds == {None, Some(<<"a","\"">>), Some(<<"<","&",">">>)}

Excludes ==
  { None,
    Some(<<Str(Admin)>>),
    Some(<<Re(Preview, TRUE, FALSE, FALSE), Str(Admin \o <<"/">>)>>),
    Some(<<Re(Preview, TRUE, TRUE, FALSE)>>),
    Some(<<Re(<<"/","a">>, FALSE, FALSE, TRUE), Str(Admin)>>),
    Some(<<Str(Preview), Re(<<"i","n">>, FALSE, TRUE, FALSE)>>),
    Some(<<Str(Admin), NotAMatcher>>) }

\* the directory the hook is given, as a filesystem path
OutDir == <<"/","d">>

Name(base) == base \o DotHtml

TreeA ==
  << Dir(<<"a","d","m","i","n">>, <<File(IndexHtml)>>),
     Dir(<<"a","d","m","i","n","i","s","t","r","a","t","i","o","n">>,
         <<File(IndexHtml)>>),
     File(<<"s",".","c","s","s">>),
     Dir(<<"p","r","e","v","i","e","w">>,
         <<File(Name(<<"a">>)), File(Name(<<"b">>))>>) >>

TreeB ==
  << Dir(<<"b","l","o","g">>, <<Dir(<<"p","o","s","t">>, <<File(IndexHtml)>>)>>),
     Dir(Name(<<"x">>), <<Other(Name(<<"l">>)), File(<<"n",".","h","t","m">>)>>),
     File(Name(<<"m","y","i","n","d","e","x">>)),
     File(IndexHtml) >>

Trees == {TreeA, TreeB}

HeadOpen == <<"<","h","e","a","d",">">>
HeadClose == <<"<","/","h","e","a","d",">">>

\* the texts a page may hold before the first run, for a given tag id
Pages(tag) ==
  << HeadOpen \o <<"\n">> \o HeadClose,
     <<"<","/"," ","H","E","A","D",">","<","H","E","A","D",">",
       "<","/","H","e","A","d"," ","\t","\n",">">>,
     <<"<","i"," ">> \o IdDq(tag \o <<"x">>) \o <<">","h","i">>,
     HeadClose \o <<"x">> \o HeadClose,
     <<"<","p"," ">> \o IdSq(tag) \o <<">">> \o HeadClose,
     <<"x"," ">> \o IdDq(tag) >>

\* page k of the listing holds text number k + shift, cyclically
Layout(files, tag, shift) ==
  [f \in {files[k] : k \in 1..Len(files)} |->
     LET k == CHOOSE n \in 1..Len(files) : files[n] = f IN
     Pages(tag)[((k + shift) % Len(Pages(tag))) + 1]]

\* ------------------------------------------------------------------------
\* State
\* ------------------------------------------------------------------------
VARIABLES
  options,        \* the argument of spiderseek(options)
  pc,             \* "init", "ctor_failed", "ready", "walk", "done", "probe"
  siteId,         \* closure constants of the integration
  tagId,
  SCRIPT_HTML,
  matchers,
  lastIndex,      \* lastIndex of each matcher that is a RegExp
  rootKind,       \* what `dir` names: "dir", "file" or "missing"
  tree,           \* the entries below `dir`
  content,        \* the text of every .html file
  htmlFiles,      \* locals of the hook
  idx,
  injectedCount,
  log,            \* calls of logger.info and logger.error
  outcome,        \* how the hook's promise settled: "none", "resolved", "rejected"
  runs,           \* number of hook invocations started
  orig,           \* content when the current run started
  decided,        \* what the current run did with each file
  io,             \* number of readdir, readFile and writeFile calls
  failures,       \* number of readFile and writeFile calls that failed
  probe           \* input and output of a probed pure function

vars ==
  <<options, pc, siteId, tagId, SCRIPT_HTML, matchers, lastIndex, rootKind,
    tree, content, htmlFiles, idx, injectedCount, log, outcome, runs, orig,
    decided, io, failures, probe>>

config == <<options, siteId, tagId, SCRIPT_HTML, matchers, rootKind, tree>>

NoProbe == [fn |-> "none", arg |-> <<>>, done |-> FALSE, url |-> <<>>, excluded |-> FALSE]

\* the tag id the integration uses for `options`
TagOf(o) == IF o.tagId.given THEN o.tagId.value ELSE DefaultTagId

Init ==
  /\ options \in [siteId : SiteIds, exclude : Excludes, tagId : TagIds]
  /\ pc = "init"
  /\ siteId = <<>>
  /\ tagId = <<>>
  /\ SCRIPT_HTML = <<>>
  /\ matchers = <<>>
  /\ lastIndex = <<>>
  /\ rootKind \in {"dir", "file", "missing"}
  /\ tree \in IF rootKind = "dir" THEN Trees ELSE {<<>>}
  /\ \E shift \in 0..(Len(Pages(<<>>)) - 1) :
       content = Layout(collectHtmlFiles(OutDir, tree), TagOf(options),
                        IF rootKind = "dir" THEN shift ELSE 0)
  /\ htmlFiles = <<>>
  /\ idx = 0
  /\ injectedCount = 0
  /\ log = <<>>
  /\ outcome = "none"
  /\ runs = 0
  /\ orig = content
  /\ decided = [f \in DOMAIN content |-> "none"]
  /\ io = [readdir |-> 0, read |-> 0, write |-> 0]
  /\ failures = 0
  /\ probe = NoProbe

\* ------------------------------------------------------------------------
\* spiderseek(options)
\* ------------------------------------------------------------------------
\* !siteId
Falsy(s) == ~s.given \/ s.value = <<>>

\* the exclude list after its default
ExcludeOf(o) == IF o.exclude.given THEN o.exclude.value ELSE <<>>

\* some exclude item is neither a string nor a RegExp
BadMatcher(o) ==
  \E j \in 1..Len(ExcludeOf(o)) : ExcludeOf(o)[j].kind \notin {"string", "regexp"}

\* ConstructThrows with a siteId test that lets the empty string through
ConstructThrows_UndefinedOnly(o) == ~o.siteId.given \/ BadMatcher(o)

\* the factory throws
ConstructThrows(o) == Falsy(o.siteId) \/ BadMatcher(o)

Construct ==
  /\ pc = "init"
  /\ IF ConstructThrows(options)
     THEN /\ pc' = "ctor_failed"
          /\ UNCHANGED <<siteId, tagId, SCRIPT_HTML, matchers, lastIndex>>
     ELSE /\ pc' = "ready"
          /\ siteId' = options.siteId.value
          /\ tagId' = TagOf(options)
          /\ SCRIPT_HTML' = ScriptHtml(TagOf(options), options.siteId.value)
          /\ matchers' = ExcludeOf(options)
          /\ lastIndex' = [j \in 1..Len(ExcludeOf(options)) |-> 0]
  /\ UNCHANGED <<options, rootKind, tree, content, htmlFiles, idx,
                 injectedCount, log, outcome, runs, orig, decided, io,
                 failures, probe>>

\* ------------------------------------------------------------------------
\* The astro:build:done hook
\* ------------------------------------------------------------------------
\* a catch block that rethrows instead of logging
Catch_Rethrow(msg) ==
  /\ log' = log
  /\ outcome' = "rejected"
  /\ pc' = "done"

\* the catch block: the error is logged and the hook returns normally
Catch(msg) ==
  /\ log' = Append(log, [level |-> "error", msg |-> msg, count |-> 0])
  /\ outcome' = "resolved"
  /\ pc' = "done"

\* the hook is entered and readdir(outDir) throws
BuildDoneRootError ==
  /\ pc \in {"ready", "done"}
  /\ runs < MaxRuns
  /\ rootKind # "dir"
  /\ runs' = runs + 1
  /\ io' = [io EXCEPT !.readdir = @ + 1]
  /\ htmlFiles' = <<>>
  /\ idx' = 0
  /\ injectedCount' = 0
  /\ orig' = content
  /\ decided' = [f \in DOMAIN content |-> "none"]
  /\ Catch(IF rootKind = "missing" THEN "ENOENT" ELSE "ENOTDIR")
  /\ UNCHANGED <<config, lastIndex, content, failures, probe>>

\* the hook is entered and collectHtmlFiles(outDir) returns
BuildDoneCollect ==
  /\ pc \in {"ready", "done"}
  /\ runs < MaxRuns
  /\ rootKind = "dir"
  /\ runs' = runs + 1
  /\ io' = [io EXCEPT !.readdir = @ + 1]
  /\ htmlFiles' = collectHtmlFiles(OutDir, tree)
  /\ idx' = 1
  /\ injectedCount' = 0
  /\ orig' = content
  /\ decided' = [f \in DOMAIN content |-> "none"]
  /\ outcome' = "none"
  /\ pc' = "walk"
  /\ UNCHANGED <<config, lastIndex, content, log, failures, probe>>

\* the file the loop is at, its URL path and the verdict of isExcluded
InLoop == pc = "walk" /\ idx <= Len(htmlFiles)
CurFile == htmlFiles[idx]
CurUrl == filePathToUrl(OutDir, CurFile)
CurExcl == isExcluded(matchers, lastIndex, CurUrl)

\* isExcluded(urlPath) is true: continue
StepExcluded ==
  /\ InLoop
  /\ CurExcl.excluded
  /\ lastIndex' = CurExcl.lastIndex
  /\ decided' = [decided EXCEPT ![CurFile] = "excluded"]
  /\ idx' = idx + 1
  /\ UNCHANGED <<config, content, htmlFiles, injectedCount, log, outcome,
                 runs, orig, pc, io, failures, probe>>

\* readFile throws: the catch block ends the loop
StepReadFail ==
  /\ InLoop
  /\ failures < MaxFailures
  /\ ~CurExcl.excluded
  /\ lastIndex' = CurExcl.lastIndex
  /\ io' = [io EXCEPT !.read = @ + 1]
  /\ decided' = [decided EXCEPT ![CurFile] = "readfail"]
  /\ Catch("readFile")
  /\ failures' = failures + 1
  /\ UNCHANGED <<config, content, htmlFiles, idx, injectedCount, runs, orig,
                 probe>>

\* the text already holds id="<tagId>" or id='<tagId>': continue
StepAlreadyTagged ==
  /\ InLoop
  /\ ~CurExcl.excluded
  /\ AlreadyTagged(content[CurFile], tagId)
  /\ lastIndex' = CurExcl.lastIndex
  /\ io' = [io EXCEPT !.read = @ + 1]
  /\ decided' = [decided EXCEPT ![CurFile] = "tagged"]
  /\ idx' = idx + 1
  /\ UNCHANGED <<config, content, htmlFiles, injectedCount, log, outcome,
                 runs, orig, pc, failures, probe>>

\* the tag is spliced in and the file is written back
StepInject ==
  /\ InLoop
  /\ ~CurExcl.excluded
  /\ ~AlreadyTagged(content[CurFile], tagId)
  /\ lastIndex' = CurExcl.lastIndex
  /\ io' = [io EXCEPT !.read = @ + 1, !.write = @ + 1]
  /\ content' = [content EXCEPT ![CurFile] = Inject(@, SCRIPT_HTML)]
  /\ injectedCount' = injectedCount + 1
  /\ decided' = [decided EXCEPT ![CurFile] = "injected"]
  /\ idx' = idx + 1
  /\ UNCHANGED <<config, htmlFiles, log, outcome, runs, orig, pc, failures,
                 probe>>

\* writeFile throws, before or after it truncated the file: the catch block
\* ends the loop
StepWriteFail ==
  /\ InLoop
  /\ failures < MaxFailures
  /\ ~CurExcl.excluded
  /\ ~AlreadyTagged(content[CurFile], tagId)
  /\ lastIndex' = CurExcl.lastIndex
  /\ io' = [io EXCEPT !.read = @ + 1, !.write = @ + 1]
  /\ \E left \in {content[CurFile], <<>>} :
       content' = [content EXCEPT ![CurFile] = left]
  /\ decided' = [decided EXCEPT ![CurFile] = "writefail"]
  /\ Catch("writeFile")
  /\ failures' = failures + 1
  /\ UNCHANGED <<config, htmlFiles, idx, injectedCount, runs, orig, probe>>

\* the loop is over: logger.info reports the count and the matchers
Finish ==
  /\ pc = "walk"
  /\ idx > Len(htmlFiles)
  /\ log' = Append(log, [level |-> "info", msg |-> "Injected",
                         count |-> injectedCount])
  /\ outcome' = "resolved"
  /\ pc' = "done"
  /\ UNCHANGED <<config, lastIndex, content, htmlFiles, idx, injectedCount,
                 runs, orig, decided, io, failures, probe>>

Next ==
  \/ Construct
  \/ BuildDoneRootError
  \/ BuildDoneCollect
  \/ StepExcluded
  \/ StepReadFail
  \/ StepAlreadyTagged
  \/ StepInject
  \/ StepWriteFail
  \/ Finish

Spec == Init /\ [][Next]_vars

TypeOK ==
  /\ pc \in {"init", "ctor_failed", "ready", "walk", "done", "probe"}
  /\ outcome \in {"none", "resolved", "rejected"}
  /\ runs \in 0..MaxRuns
  /\ failures \in 0..MaxFailures

\* ------------------------------------------------------------------------
\* The pure functions on their own: filePathToUrl and isExcluded("/admin")
\* ------------------------------------------------------------------------
\* the sequences over S of length at most n
SeqsUpTo(S, n) == UNION {[1..k -> S] : k \in 0..n}

\* directory prefixes of a relative path: empty, or segments each closed by
\* a slash
DirPrefixes ==
  {d \in SeqsUpTo({"a", "b", "/"}, MaxPrefixLen) :
     \/ d = <<>>
     \/ /\ d[1] # "/"
        /\ d[Len(d)] = "/"
        /\ \A k \in 1..(Len(d) - 1) : ~(d[k] = "/" /\ d[k + 1] = "/")}

\* the relative paths of .html files probed
RelPaths ==
  {d \o n : d \in DirPrefixes,
            n \in {IndexHtml, Name(<<"a">>), Name(<<"m","y","i","n","d","e","x">>)}}

\* the URL paths probed against the matcher "/admin"
UrlPaths ==
  {pre \o mid \o suf :
     pre \in {<<>>, <<"/","x">>},
     mid \in {Admin, <<"/","a","d","m","i">>, <<"/","A","d","m","i","n">>},
     suf \in SeqsUpTo({"/", "i"}, MaxSuffixLen)
               \cup {<<"i","s","t","r","a","t","i","o","n">>}}

InitProbe ==
  /\ options = [siteId |-> Some(<<"X">>), exclude |-> Some(<<Str(Admin)>>),
                tagId |-> None]
  /\ pc = "probe"
  /\ siteId = options.siteId.value
  /\ tagId = TagOf(options)
  /\ SCRIPT_HTML = ScriptHtml(tagId, siteId)
  /\ matchers = ExcludeOf(options)
  /\ lastIndex = <<0>>
  /\ rootKind = "dir"
  /\ tree = <<>>
  /\ content = Layout(<<>>, tagId, 0)
  /\ htmlFiles = <<>>
  /\ idx = 0
  /\ injectedCount = 0
  /\ log = <<>>
  /\ outcome = "none"
  /\ runs = 0
  /\ orig = content
  /\ decided = [f \in DOMAIN content |-> "none"]
  /\ io = [readdir |-> 0, read |-> 0, write |-> 0]
  /\ failures = 0
  /\ \/ \E rel \in RelPaths : probe = [NoProbe EXCEPT !.fn = "url", !.arg = rel]
     \/ \E p \in UrlPaths : probe = [NoProbe EXCEPT !.fn = "excluded", !.arg = p]

\* filePathToUrl(outDir, path.join(outDir, rel))
ProbeUrl ==
  /\ pc = "probe"
  /\ probe.fn = "url"
  /\ ~probe.done
  /\ probe' = [probe EXCEPT !.done = TRUE,
                            !.url = filePathToUrl(OutDir, PathJoin(OutDir, probe.arg))]
  /\ UNCHANGED <<config, pc, lastIndex, content, htmlFiles, idx, injectedCount,
                 log, outcome, runs, orig, decided, io, failures>>

\* isExcluded(p) of the integration configured with exclude: ["/admin"]
ProbeExcluded ==
  /\ pc = "probe"
  /\ probe.fn = "excluded"
  /\ ~probe.done
  /\ probe' = [probe EXCEPT !.done = TRUE,
                 !.excluded = isExcluded(matchers, lastIndex, probe.arg).excluded]
  /\ lastIndex' = isExcluded(matchers, lastIndex, probe.arg).lastIndex
  /\ UNCHANGED <<config, pc, content, htmlFiles, idx, injectedCount, log,
                 outcome, runs, orig, decided, io, failures>>

NextProbe ==
  \/ ProbeUrl
  \/ ProbeExcluded

SpecProbe == InitProbe /\ [][NextProbe]_vars

\* ------------------------------------------------------------------------
\* C2: path derivation
\* ------------------------------------------------------------------------
\* an index route: the file index.html at the root or in a directory
IsIndexRoute(rel) == rel = IndexHtml \/ EndsWith(rel, SlashIndexHtml)

\* C2: every index route, the one at the root included, maps to "/" followed
\* by its directory part (so it ends in "/" and index.html is removed), and
\* every other file maps to "/" followed by its relative path
C2_PathDerivation ==
  (probe.fn = "url" /\ probe.done) =>
     probe.url = IF IsIndexRoute(probe.arg)
                 THEN <<"/">> \o SliceDropLast(probe.arg, Len(IndexHtml))
                 ELSE <<"/">> \o probe.arg

\* ------------------------------------------------------------------------
\* C4: prefix exclusion is segment-aware
\* ------------------------------------------------------------------------
\* C4: with the string matcher "/admin", isExcluded(p) is true iff p is
\* "/admin" or p starts with "/admin/"
C4_PrefixSegmentAware ==
  (probe.fn = "excluded" /\ probe.done) =>
     (probe.excluded <=>
        \/ probe.arg = Admin
        \/ /\ Len(probe.arg) > Len(Admin)
           /\ \A k \in 1..Len(Admin) : probe.arg[k] = Admin[k]
           /\ probe.arg[Len(Admin) + 1] = "/")

\* "/administration" was tested and is not excluded, and "/admin/i" is
C4_Witness ==
  /\ probe.fn = "excluded"
  /\ probe.done
  /\ \/ probe.arg = Admin \o <<"i","s","t","r","a","t","i","o","n">> /\ ~probe.excluded
     \/ probe.arg = Admin \o <<"/","i">> /\ probe.excluded

\* ------------------------------------------------------------------------
\* Vocabulary of the claims about a walk
\* ------------------------------------------------------------------------
\* the hook has been entered at least once
Ran == pc \in {"walk", "done"} /\ runs > 0

\* the files of the listing
Collected == {htmlFiles[k] : k \in 1..Len(htmlFiles)}

\* the number of places where p occurs in s
Occurrences(s, p) == Cardinality({k \in 0..Len(s) : OccursAt(s, p, k)})

\* the matcher m, taken by itself, matches the URL path u
Matches(m, u) ==
  IF m.kind = "string"
  THEN \/ u = m.text
       \/ StartsWith(u, IF m.text # <<>> /\ m.text[Len(m.text)] = "/"
                        THEN m.text ELSE m.text \o <<"/">>)
  ELSE \E k \in 0..(IF m.sticky THEN 0 ELSE Len(u)) :
         /\ m.anchored => k = 0
         /\ OccursAt(u, m.text, k)

\* some configured matcher matches the URL path of file f
MatchedByAny(f) ==
  \E j \in 1..Len(matchers) : Matches(matchers[j], filePathToUrl(OutDir, f))

\* text holds id="<tag>" or id='<tag>' somewhere
HasIdAttr(text, tag) ==
  \E q \in {"\"", "'"} :
    \E k \in 0..Len(text) :
      OccursAt(text, <<"i","d","=",q>> \o tag \o <<q>>, k)

\* ------------------------------------------------------------------------
\* C1: idempotence
\* ------------------------------------------------------------------------
\* C1: whatever the tag id and however often the hook has run, no file holds
\* the injected script tag more than once
C1_AtMostOneTag ==
  Ran => \A f \in DOMAIN content : Occurrences(content[f], SCRIPT_HTML) <= 1

\* ------------------------------------------------------------------------
\* C3: per-file failures are not fatal
\* ------------------------------------------------------------------------
\* C3: when the hook has returned, every file of the listing was attempted,
\* whether or not an earlier file failed to be read or written
C3_EveryFileAttempted ==
  (pc = "done" /\ rootKind = "dir") =>
     \A f \in Collected : decided[f] # "none"

\* ------------------------------------------------------------------------
\* C5: pattern exclusion
\* ------------------------------------------------------------------------
\* C5: a file the walk has decided on was excluded iff some matcher matches
\* its URL path, at any position of the listing and in any run
C5_ExcludedIffMatches ==
  Ran => \A f \in Collected :
           decided[f] # "none" => (decided[f] = "excluded" <=> MatchedByAny(f))

\* ------------------------------------------------------------------------
\* C7: an excluded file is skipped entirely
\* ------------------------------------------------------------------------
\* C7: a file whose URL path matches a configured matcher keeps the text it
\* had when the run began and is not counted
C7_MatchedFileUntouched ==
  Ran => \A f \in Collected :
           MatchedByAny(f) =>
             /\ content[f] = orig[f]
             /\ decided[f] # "injected"

\* ------------------------------------------------------------------------
\* C6: the root directory is missing or is no directory
\* ------------------------------------------------------------------------
\* nothing under the root has been read or written, and no text differs from
\* the text the run began with
NothingTouched ==
  /\ io.read = 0
  /\ io.write = 0
  /\ content = orig
  /\ injectedCount = 0

C8_TaggedFileUntouched ==
  Ran => \A f \in DOMAIN content :
           HasIdAttr(orig[f], tagId) =>
             /\ content[f] = orig[f]
             /\ decided[f] \notin {"injected", "writefail"}

\* the walk passed over a file carrying the single-quoted id, with matchers
\* configured, and over one carrying the double-quoted id
C8_Witness ==
  /\ pc = "done"
  /\ matchers # <<>>
  /\ \E f \in Collected :
       decided[f] = "tagged" /\ Includes(orig[f], <<"i","d","=","'">>)
  /\ \E f \in Collected :
       decided[f] = "tagged" /\ Includes(orig[f], <<"i","d","=","\"">>)

\* ------------------------------------------------------------------------
\* C9: configuration errors
\* ------------------------------------------------------------------------
\* the options have no siteId, an empty one, or an exclude item that is
\* neither a string nor a RegExp
InvalidOptions ==
  \/ ~options.siteId.given
  \/ options.siteId.value = <<>>
  \/ \E j \in 1..Len(options.exclude.value) :
       options.exclude.value[j].kind = "other"

\* C9: with such options the factory fails, no hook ever runs, and no
\* directory or file is read or written
C9_ConfigErrorsFatal ==
  (pc # "probe" /\ InvalidOptions) =>
     /\ pc \in {"init", "ctor_failed"}
     /\ runs = 0
     /\ io = [readdir |-> 0, read |-> 0, write |-> 0]
     /\ content = orig

\* the factory has thrown on an empty siteId
C9_Witness ==
  /\ pc = "ctor_failed"
  /\ options.siteId = Some(<<>>)
  /\ rootKind = "dir"

\* the factory has thrown on an exclude item of the wrong type
C9_WitnessMatcher ==
  /\ pc = "ctor_failed"
  /\ options.siteId = Some(<<"X">>)
  /\ \E j \in 1..Len(options.exclude.value) :
       options.exclude.value[j] = NotAMatcher

\* ------------------------------------------------------------------------
\* C10: the splice point
\* ------------------------------------------------------------------------
\* "</head", in any letter case, begins at 0-based index i of text
HeadCloseStem(text, i) ==
  /\ i + 7 <= Len(text)
  /\ text[i + 1] = "<"
  /\ text[i + 2] = "/"
  /\ text[i + 3] \in {"h", "H"}
  /\ text[i + 4] \in {"e", "E"}
  /\ text[i + 5] \in {"a", "A"}
  /\ text[i + 6] \in {"d", "D"}

\* w whitespace characters and then ">" follow the stem that begins at i
HeadCloseTail(text, i, w) ==
  /\ i + 7 + w <= Len(text)
  /\ \A j \in 1..w : text[i + 6 + j] \in {" ", "\t", "\n", "\r"}
  /\ text[i + 7 + w] = ">"

\* the indices at which a closing head tag begins
HeadCloseIndices(text) ==
  {i \in 0..Len(text) :
     /\ HeadCloseStem(text, i)
     /\ \E w \in 0..(Len(text) - i - 7) : HeadCloseTail(text, i, w)}

\* the text the claim prescribes for an original text and a script tag
Spliced(text, script) ==
  LET found == HeadCloseIndices(text) IN
  IF found = {}
  THEN script \o <<"\n">> \o text
  ELSE LET i == CHOOSE n \in found : \A m \in found : n <= m
           nl == IF i > 0 /\ text[i] = "\n" THEN <<>> ELSE <<"\n">>
       IN SubSeq(text, 1, i) \o nl \o script \o <<"\n">>
            \o SubSeq(text, i + 1, Len(text))

\* C10: the text written for an injected file is its original text with
\* only the script tag (and its newlines) inserted at the splice point
C10_SplicePoint ==
  Ran => \A f \in Collected :
           decided[f] = "injected" => content[f] = Spliced(orig[f], SCRIPT_HTML)

\* one run injected a file without a closing head tag, a file whose closing
\* head tag is at index 0, and a file whose closing head tag follows a newline
C10_Witness ==
  /\ pc = "done"
  /\ \E f \in Collected :
       decided[f] = "injected" /\ HeadCloseIndices(orig[f]) = {}
  /\ \E f \in Collected :
       decided[f] = "injected" /\ 0 \in HeadCloseIndices(orig[f])
  /\ \E f \in Collected :
       /\ decided[f] = "injected"
       /\ \E i \in HeadCloseIndices(orig[f]) :
            /\ i > 0
            /\ orig[f][i] = "\n"
            /\ \A m \in HeadCloseIndices(orig[f]) : i <= m

====
